---- MODULE Spec2Model ----
(***************************************************************************)
(* AbstractHandle of WCDB (the connection, its statements, its error       *)
(* levels and its transactions) and the guard-paged page-cache allocator   *)
(* (pcache-malloc and the dlmalloc configuration) that follows it in       *)
(* AbstractHandle.cpp.                                                      *)
(*                                                                          *)
(* Addresses are byte addresses.  Page 0 is never mapped, so address 0 is   *)
(* the null pointer.  The kernel's view of the address space is `pages`,    *)
(* the protection of every page; `mem` is the content of every byte.        *)
(***************************************************************************)
EXTENDS Integers, FiniteSets, Sequences, TLC

(***************************************************************************)
(* Bounds of the model.                                                     *)
(***************************************************************************)
PageSize == 8          \* getpagesize(), scaled down
NPages == 5            \* pages 1..NPages can be mapped
MaxArenaSz == 9        \* largest size handed to the guarded mmap_impl
MaxSz == 1             \* largest size handed to pcache_malloc / pcache_malloc_zero
GranPages == 2         \* dlmalloc's granularity (DEFAULT_GRANULARITY), in pages
NThreads == 2          \* threads calling into the allocator concurrently
MaxCalls == 2          \* calls each thread makes

NULL == 0
MAP_FAILED == 0 - 1    \* (void *) -1

VARIABLES
    pages,      \* page number -> "unmapped" | "none" | "rw"
    mem,        \* byte address -> 0..255
    resv,       \* live guarded reservations: records [addr, sz, pgs]
    snap,       \* history: `pages` as it was when the last call started
    last,       \* history: the last call and what it returned
    pcache_msp, \* static mspace pcache_msp: NULL or the address of the space
    segs,       \* the segment list of the space: records [base, size]
    use_lock,   \* the space's USE_LOCK_BIT, set from create_mspace's `locked`
    chunks,     \* chunks the space has handed out: records [base, size]
    live,       \* history: blocks the callers hold: records [p, s, t]
    phase,      \* "down" before pcache_meminit / after pcache_memdeinit, else "up"
    crashed,    \* the process died on a fault
    base0,      \* history: `pages` as it was when pcache_meminit was called
    nmmap,      \* history: MMAP calls that succeeded for the space since it exists
    spaces,     \* history: the spaces created and not destroyed, by address
    tstate,     \* per thread: where it is inside a call, and the call's locals
    mutex       \* the space's lock: 0 when free, else the thread holding it

VARIABLES
    m_handle,                \* sqlite3 *m_handle: NULL or the connection held
    m_nestedLevel,           \* int m_nestedLevel
    m_lazyNestedTransaction, \* bool m_lazyNestedTransaction
    m_handleStatements,      \* the list of HandleStatement, by statement id
    m_ignorableCodes,        \* the stack of ignorable result codes
    m_error,                 \* m_error: the code and level last notified
    db,         \* the engine: connections not closed, and the state of the
                \* connection in use (autocommit, savepoints, errcode, statements)
    trace,      \* history: what the last call did to the engine and the notifier
    hlast,      \* history: the last call on the handle and what it returned
    depth       \* history: nested transactions the caller has begun and not ended

hvars == <<m_handle, m_nestedLevel, m_lazyNestedTransaction, m_handleStatements,
           m_ignorableCodes, m_error, db, trace, hlast, depth>>

pcvars == <<pcache_msp, segs, use_lock, chunks, live, phase, crashed, base0, nmmap,
            spaces>>
tvars == <<tstate, mutex>>
vars == <<pages, mem, resv, snap, last, pcache_msp, segs, use_lock, chunks, live,
          phase, crashed, base0, nmmap, spaces, tstate, mutex, m_handle,
          m_nestedLevel, m_lazyNestedTransaction, m_handleStatements,
          m_ignorableCodes, m_error, db, trace, hlast, depth>>

PageNos == 1..NPages
Addrs == PageSize..((NPages + 1) * PageSize - 1)

PageOf(a) == a \div PageSize

\* protection of the page holding byte a
Prot(pg, a) == IF PageOf(a) \in PageNos THEN pg[PageOf(a)] ELSE "unmapped"

\* number of pages the kernel uses for a length
PagesFor(len) == (len + PageSize - 1) \div PageSize

\* the pages of [addr, addr + len), addr page-aligned, len rounded up by the kernel
PageRange(addr, len) == PageOf(addr)..(PageOf(addr) + PagesFor(len) - 1)

(***************************************************************************)
(* The kernel calls.                                                        *)
(***************************************************************************)
\* mmap(NULL, len, prot, MAP_PRIVATE | MAP_ANONYMOUS): the bases the kernel may pick
sys_mmap_bases(pg, len) ==
    {p * PageSize : p \in {q \in PageNos :
        /\ len > 0
        /\ PageRange(q * PageSize, len) \subseteq PageNos
        /\ \A r \in PageRange(q * PageSize, len) : pg[r] = "unmapped"}}

sys_mmap(pg, base, len, prot) ==
    [r \in PageNos |-> IF r \in PageRange(base, len) THEN prot ELSE pg[r]]

\* mprotect fails with ENOMEM when part of the range is not mapped
sys_mprotect_can(pg, addr, len) ==
    /\ addr % PageSize = 0
    /\ \A r \in PageRange(addr, len) : r \in PageNos /\ pg[r] # "unmapped"

sys_mprotect(pg, addr, len, prot) ==
    [r \in PageNos |-> IF r \in PageRange(addr, len) THEN prot ELSE pg[r]]

\* munmap fails with EINVAL on a misaligned address or a zero length
sys_munmap_can(addr, len) == addr % PageSize = 0 /\ len > 0

sys_munmap(pg, addr, len) ==
    [r \in PageNos |-> IF r \in PageRange(addr, len) THEN "unmapped" ELSE pg[r]]

\* fresh anonymous pages read as zero; so does the model of an unmapped byte
ZeroPages(m, ps) == [a \in Addrs |-> IF PageOf(a) \in ps THEN 0 ELSE m[a]]

(***************************************************************************)
(* Guarded arena: mmap_impl / munmap_impl of pcache-malloc.                 *)
(***************************************************************************)
\* mmap_impl(sz) once the kernel has answered: `base` is what mmap returned
\* (MAP_FAILED or a base), `protOk` whether mprotect succeeds.
\* Result: the value returned and the page table left behind.
mmap_impl_leak(pg, sz, base, protOk) ==
    IF base = MAP_FAILED
    THEN [ret |-> MAP_FAILED, pages |-> pg]
    ELSE LET reserved == sys_mmap(pg, base, sz + PageSize * 2, "none")
         IN IF protOk /\ sys_mprotect_can(reserved, base + PageSize, sz)
            THEN [ret |-> base + PageSize,
                  pages |-> sys_mprotect(reserved, base + PageSize, sz, "rw")]
            ELSE [ret |-> MAP_FAILED, pages |-> reserved]

mmap_impl_roundup(pg, sz, base, protOk) ==
    IF base = MAP_FAILED
    THEN [ret |-> MAP_FAILED, pages |-> pg]
    ELSE LET reserved == sys_mmap(pg, base, sz + PageSize * 2, "none")
         IN IF protOk /\ sys_mprotect_can(reserved, base + PageSize, sz)
            THEN [ret |-> base + PageSize,
                  pages |-> sys_mprotect(reserved, base + PageSize,
                                         sz + PageSize, "rw")]
            ELSE [ret |-> MAP_FAILED,
                  pages |-> sys_munmap(reserved, base, sz + PageSize * 2)]

mmap_impl(pg, sz, base, protOk) ==
    IF base = MAP_FAILED
    THEN [ret |-> MAP_FAILED, pages |-> pg]                      \* goto failure
    ELSE LET reserved == sys_mmap(pg, base, sz + PageSize * 2, "none")
         IN IF protOk /\ sys_mprotect_can(reserved, base + PageSize, sz)
            THEN [ret |-> base + PageSize,
                  pages |-> sys_mprotect(reserved, base + PageSize, sz, "rw")]
            ELSE [ret |-> MAP_FAILED,                            \* failure:
                  pages |-> sys_munmap(reserved, base, sz + PageSize * 2)]

\* munmap_impl(addr, sz): the page table after the call
munmap_impl_short(pg, addr, sz) ==
    IF sys_munmap_can(addr, sz + PageSize)
    THEN sys_munmap(pg, addr, sz + PageSize)
    ELSE pg

munmap_impl(pg, addr, sz) ==
    IF sys_munmap_can(addr - PageSize, sz + PageSize * 2)
    THEN sys_munmap(pg, addr - PageSize, sz + PageSize * 2)
    ELSE pg

ArenaSizes == 0..MaxArenaSz

\* a caller reserves a guarded region of sz bytes
Call_mmap_impl ==
    \E sz \in ArenaSizes :
      \E base \in sys_mmap_bases(pages, sz + PageSize * 2) \cup {MAP_FAILED} :
        \E protOk \in BOOLEAN :
          LET r == mmap_impl(pages, sz, base, protOk)
          IN /\ pages' = r.pages
             /\ mem' = mem
             /\ resv' = IF r.ret = MAP_FAILED THEN resv
                        ELSE resv \cup {[addr |-> r.ret, sz |-> sz,
                                         pgs |-> {p \in PageNos :
                                                    pages[p] # r.pages[p]}]}
             /\ snap' = pages
             /\ last' = [op |-> "mmap_impl", arg |-> sz, ret |-> r.ret,
                         stage |-> IF base = MAP_FAILED THEN "mmap"
                                   ELSE IF r.ret = MAP_FAILED THEN "mprotect"
                                   ELSE "done"]
             /\ UNCHANGED <<pcvars, tvars, hvars>>

\* the owner of a reservation releases it, with the size it reserved
Call_munmap_impl ==
    \E r \in resv :
      /\ pages' = munmap_impl(pages, r.addr, r.sz)
      /\ mem' = ZeroPages(mem, {p \in PageNos : pages[p] # "unmapped"
                                                /\ pages'[p] = "unmapped"})
      /\ resv' = resv \ {r}
      /\ snap' = pages
      /\ last' = [op |-> "munmap_impl", arg |-> r.sz, ret |-> r.addr,
                  stage |-> IF last.op = "mmap_impl" /\ last.ret = r.addr
                            THEN "roundtrip" ELSE "done"]
      /\ UNCHANGED <<pcvars, tvars, hvars>>

Init ==
    /\ pages = [p \in PageNos |-> "unmapped"]
    /\ mem = [a \in Addrs |-> 0]
    /\ resv = {}
    /\ snap = [p \in PageNos |-> "unmapped"]
    /\ last = [op |-> "none", arg |-> 0, ret |-> 0, stage |-> "done"]
    /\ pcache_msp = NULL
    /\ segs = {}
    /\ use_lock = FALSE
    /\ chunks = {}
    /\ live = {}
    /\ phase = "down"
    /\ crashed = FALSE
    /\ base0 = [p \in PageNos |-> "unmapped"]
    /\ nmmap = 0
    /\ spaces = {}
    /\ tstate = [t \in 1..NThreads |->
                   [pc |-> "idle", op |-> "none", arg |-> 0, cand |-> 0, ptr |-> 0,
                    n |-> 0]]
    /\ mutex = 0
    /\ m_handle = NULL
    /\ m_nestedLevel = 0
    /\ m_lazyNestedTransaction = FALSE
    /\ m_handleStatements = <<>>
    /\ m_ignorableCodes = <<>>
    /\ m_error = [code |-> "OK", level |-> "None"]
    /\ db = [open |-> {}, autocommit |-> TRUE, savepoints |-> <<>>,
             errcode |-> "OK", prepared |-> {}]
    /\ trace = <<>>
    /\ hlast = [op |-> "none", ret |-> TRUE]
    /\ depth = 0

NextArena == Call_mmap_impl \/ Call_munmap_impl

SpecArena == Init /\ [][NextArena]_vars

(***************************************************************************)
(* Memory accesses.                                                         *)
(***************************************************************************)
SizeofSizeT == 8       \* sizeof(size_t)

\* #define ROUND8(x) (((x)+7)&~7)
ROUND8(x) == ((x + 7) \div 8) * 8

\* size_t padding = ROUND8(sizeof(size_t))
padding == ROUND8(SizeofSizeT)

\* the access faults unless every byte lies in a read/write page
can_access(pg, a, n) == \A x \in a..(a + n - 1) : Prot(pg, x) = "rw"

\* v >> (8 * i)
RECURSIVE ShiftRight8(_, _)
ShiftRight8(v, i) == IF i = 0 THEN v ELSE ShiftRight8(v \div 256, i - 1)

\* *(size_t *) a = v, little-endian
store_size_t(m, a, v) ==
    [x \in Addrs |-> IF x >= a /\ x < a + SizeofSizeT
                     THEN ShiftRight8(v, x - a) % 256
                     ELSE m[x]]

\* *(size_t *) a
load_size_t(m, a) ==
    LET f[i \in 0..SizeofSizeT] ==
            IF i = SizeofSizeT THEN 0 ELSE m[a + i] + 256 * f[i + 1]
    IN f[0]

\* (int) *(size_t *) a: the low four bytes, read as two's complement
load_int(m, a) ==
    LET low == m[a] + 256 * m[a + 1] + 65536 * m[a + 2]
        b3 == m[a + 3]
    IN (IF b3 >= 128 THEN b3 - 256 ELSE b3) * (2 ^ 24) + low

\* memset(a, c, n)
memset(m, a, c, n) == [x \in Addrs |-> IF x >= a /\ x < a + n THEN c ELSE m[x]]

(***************************************************************************)
(* The malloc configuration: the hooks dlmalloc maps its memory with.       *)
(***************************************************************************)
\* static inline mmap_impl(sz) of the configuration; `base` is what sys_mmap
\* returned
mmap_impl_cfg(pg, sz, base) ==
    IF base = MAP_FAILED
    THEN [ret |-> MAP_FAILED, pages |-> pg]
    ELSE [ret |-> base, pages |-> sys_mmap(pg, base, sz, "rw")]

\* static inline munmap_impl(addr, sz) of the configuration
munmap_impl_cfg_partial(pg, addr, sz) ==
    IF sys_munmap_can(addr, sz - PageSize)
    THEN sys_munmap(pg, addr, sz - PageSize)
    ELSE pg

munmap_impl_cfg(pg, addr, sz) ==
    IF sys_munmap_can(addr, sz)
    THEN sys_munmap(pg, addr, sz)
    ELSE pg

\* #define MMAP(s) mmap_impl((s))
MMAP(pg, s, base) == mmap_impl_cfg(pg, s, base)

\* #define MUNMAP(a, s) munmap_impl((a), (s))
MUNMAP(pg, a, s) == munmap_impl_cfg(pg, a, s)

(***************************************************************************)
(* The space allocator (dlmalloc's mspace interface).  Its bookkeeping is   *)
(* kept apart from `mem`: `segs` is its segment list, `chunks` the chunks   *)
(* in use.  Which free chunk it picks is left open.                         *)
(***************************************************************************)
MALLOC_ALIGNMENT == 8

Granularity == GranPages * PageSize

granularity_align(n) == ((n + Granularity - 1) \div Granularity) * Granularity

\* the size of the chunk that serves a request of n bytes
pad_request(n) ==
    ((n + MALLOC_ALIGNMENT - 1) \div MALLOC_ALIGNMENT) * MALLOC_ALIGNMENT

Overlap(b1, n1, b2, n2) == b1 < b2 + n2 /\ b2 < b1 + n1

\* the bases at which a free chunk of nb bytes can be carved
free_bases(sg, ch, nb) ==
    {b \in Addrs :
        /\ b % MALLOC_ALIGNMENT = 0
        /\ \E s \in sg : b >= s.base /\ b + nb <= s.base + s.size
        /\ \A c \in ch : ~Overlap(b, nb, c.base, c.size)}

\* the allocator's state and the memory it lives in, as one value
Heap ==
    [pages |-> pages, mem |-> mem, segs |-> segs, chunks |-> chunks,
     nmmap |-> nmmap]

SetHeap(h) ==
    /\ pages' = h.pages
    /\ mem' = h.mem
    /\ segs' = h.segs
    /\ chunks' = h.chunks
    /\ nmmap' = h.nmmap

\* sys_alloc: no free chunk fits, a new segment is mapped with MMAP
sys_alloc(h, nb) ==
    LET tsize == granularity_align(nb)
    IN {LET r == MMAP(h.pages, tsize, base)
        IN IF r.ret = MAP_FAILED
           THEN [ptr |-> NULL, h |-> h]
           ELSE [ptr |-> r.ret,
                 h |-> [h EXCEPT !.pages = r.pages,
                                 !.segs = @ \cup {[base |-> r.ret, size |-> tsize]},
                                 !.chunks = @ \cup {[base |-> r.ret, size |-> nb]},
                                 !.nmmap = @ + 1]]
        : base \in sys_mmap_bases(h.pages, tsize) \cup {MAP_FAILED}}

\* mspace_malloc(msp, n): the possible outcomes, each a pointer (or NULL) and
\* the state left behind
mspace_malloc_always_maps(h, n) == sys_alloc(h, pad_request(n))

mspace_malloc(h, n) ==
    LET nb == pad_request(n)
        F == free_bases(h.segs, h.chunks, nb)
    IN IF F # {}
       THEN {[ptr |-> b,
              h |-> [h EXCEPT !.chunks = @ \cup {[base |-> b, size |-> nb]}]]
             : b \in F}
       ELSE sys_alloc(h, nb)

\* mspace_calloc(msp, n, 1): mspace_malloc, then the n bytes are cleared
mspace_calloc(h, n) ==
    {IF o.ptr = NULL THEN o
     ELSE [ptr |-> o.ptr, h |-> [o.h EXCEPT !.mem = memset(@, o.ptr, 0, n)]]
     : o \in mspace_malloc(h, n)}

\* mspace_free(msp, mem): nothing when mem is null (if (mem != 0)), else mem
\* is a chunk in use.  The bytes of a free chunk belong to the allocator,
\* which links the chunk into its bins through them: the next holder of these
\* bytes finds them non-zero.
mspace_free(h, b) ==
    IF b = NULL
    THEN h
    ELSE LET c == CHOOSE x \in h.chunks : x.base = b
         IN [h EXCEPT !.chunks = @ \ {c},
                      !.mem = memset(@, c.base, 255, c.size)]

\* create_mspace(capacity, locked): capacity 0 asks for the default
\* granularity; the space takes its lock only when `locked` is not 0
create_mspace(h, capacity, locked) ==
    LET rs == IF capacity = 0 THEN Granularity ELSE capacity
        tsize == granularity_align(rs)
    IN {LET r == MMAP(h.pages, tsize, base)
        IN IF r.ret = MAP_FAILED
           THEN [msp |-> NULL, lock |-> FALSE, h |-> h]
           ELSE [msp |-> r.ret, lock |-> (locked # 0),
                 h |-> [h EXCEPT !.pages = r.pages,
                                 !.segs = {[base |-> r.ret, size |-> tsize]},
                                 !.chunks = {},
                                 !.nmmap = 1]]
        : base \in sys_mmap_bases(h.pages, tsize) \cup {MAP_FAILED}}

\* destroy_mspace(msp): every segment of the space goes back through MUNMAP
destroy_mspace(h) ==
    LET unmapSegs[S \in SUBSET h.segs] ==
            IF S = {} THEN h.pages
            ELSE LET s == CHOOSE x \in S : TRUE
                 IN MUNMAP(unmapSegs[S \ {s}], s.base, s.size)
        pg == unmapSegs[h.segs]
    IN [h EXCEPT !.pages = pg,
                 !.mem = ZeroPages(@, {p \in PageNos : pg[p] = "unmapped"}),
                 !.segs = {},
                 !.chunks = {}]

(***************************************************************************)
(* pcache-malloc: the public interface.                                     *)
(***************************************************************************)
Sizes == 0..MaxSz

AllocOps == {"pcache_malloc", "pcache_malloc_zero"}

\* the process dies inside `op`
Crash(op, arg, stage) ==
    /\ crashed' = TRUE
    /\ last' = [op |-> op, arg |-> arg, ret |-> NULL, stage |-> stage]
    /\ snap' = pages
    /\ UNCHANGED <<pages, mem, resv, pcache_msp, segs, use_lock, chunks, live,
                   phase, base0, nmmap,
                   spaces>>

\* void pcache_meminit(): the space created takes the place of whatever
\* pcache_msp held
pcache_meminit ==
    /\ ~crashed
    /\ \E c \in create_mspace(Heap, 0, 0) :
         /\ pcache_msp' = c.msp
         /\ use_lock' = c.lock
         /\ SetHeap(c.h)
         /\ spaces' = IF c.msp = NULL THEN spaces ELSE spaces \cup {c.msp}
    /\ phase' = "up"
    /\ live' = {}
    /\ base0' = pages
    /\ snap' = pages
    /\ last' = [op |-> "pcache_meminit", arg |-> 0, ret |-> pcache_msp',
                stage |-> "done"]
    /\ UNCHANGED <<resv, crashed>>

\* void pcache_memdeinit(): destroy_mspace reads the space's state at
\* pcache_msp, which faults when pcache_msp is null or the space behind it
\* has been unmapped; pcache_msp keeps its value
pcache_memdeinit ==
    /\ ~crashed
    /\ IF pcache_msp = NULL
       THEN Crash("pcache_memdeinit", 0, "nullspace")
       ELSE IF ~can_access(pages, pcache_msp, SizeofSizeT)
       THEN Crash("pcache_memdeinit", 0, "dangling")
       ELSE /\ SetHeap(destroy_mspace(Heap))
            /\ spaces' = spaces \ {pcache_msp}
            /\ phase' = "down"
            /\ live' = {}
            /\ snap' = pages
            /\ last' = [op |-> "pcache_memdeinit", arg |-> 0, ret |-> 0,
                        stage |-> "done"]
            /\ UNCHANGED <<resv, pcache_msp, use_lock, crashed, base0>>

\* what pcache_malloc / pcache_malloc_zero do with the outcome o of the
\* underlying call: the header store and the return
wrap_alloc_nopad(op, sz, o, dirty) ==
    IF o.ptr = NULL
    THEN \/ Crash(op, sz, "null")
         \/ /\ SetHeap(o.h)
            /\ snap' = pages
            /\ last' = [op |-> op, arg |-> sz, ret |-> o.ptr + padding,
                        stage |-> "null"]
            /\ UNCHANGED <<resv, pcache_msp, use_lock, live, phase, crashed, base0,
                   spaces>>
    ELSE /\ SetHeap([o.h EXCEPT !.mem = store_size_t(@, o.ptr, sz)])
         /\ live' = live \cup {[p |-> o.ptr + padding, s |-> sz, t |-> 0]}
         /\ snap' = pages
         /\ last' = [op |-> op, arg |-> sz, ret |-> o.ptr + padding,
                     stage |-> IF dirty THEN "dirty" ELSE "ok"]
         /\ UNCHANGED <<resv, pcache_msp, use_lock, phase, crashed, base0,
                   spaces>>

wrap_alloc(op, sz, o, dirty) ==
    IF o.ptr = NULL
    THEN \* *(size_t *) ptr = ... with ptr == NULL: the store faults, or the
         \* build goes on and returns ptr + padding
         \/ Crash(op, sz, "null")
         \/ /\ SetHeap(o.h)
            /\ snap' = pages
            /\ last' = [op |-> op, arg |-> sz, ret |-> o.ptr + padding,
                        stage |-> "null"]
            /\ UNCHANGED <<resv, pcache_msp, use_lock, live, phase, crashed, base0,
                   spaces>>
    ELSE /\ SetHeap([o.h EXCEPT !.mem = store_size_t(@, o.ptr, sz + padding)])
         /\ live' = live \cup {[p |-> o.ptr + padding, s |-> sz, t |-> 0]}
         /\ snap' = pages
         /\ last' = [op |-> op, arg |-> sz, ret |-> o.ptr + padding,
                     stage |-> IF dirty THEN "dirty" ELSE "ok"]
         /\ UNCHANGED <<resv, pcache_msp, use_lock, phase, crashed, base0,
                   spaces>>

\* some byte of [p, p + n) is not zero
Dirty(m, p, n) == \E x \in p..(p + n - 1) : m[x] # 0

\* void *pcache_malloc(size_t sz)
pcache_malloc(sz) ==
    /\ phase = "up" /\ ~crashed
    /\ IF pcache_msp = NULL
       THEN Crash("pcache_malloc", sz, "nullspace")
       ELSE \E o \in mspace_malloc(Heap, sz + padding) :
              wrap_alloc("pcache_malloc", sz, o, FALSE)

\* void *pcache_malloc_zero(size_t sz)
pcache_malloc_zero_noclear(sz) ==
    /\ phase = "up" /\ ~crashed
    /\ IF pcache_msp = NULL
       THEN Crash("pcache_malloc_zero", sz, "nullspace")
       ELSE \E o \in mspace_malloc(Heap, sz + padding) :
              wrap_alloc("pcache_malloc_zero", sz, o,
                         o.ptr # NULL /\ Dirty(mem, o.ptr + padding, sz))

pcache_malloc_zero(sz) ==
    /\ phase = "up" /\ ~crashed
    /\ IF pcache_msp = NULL
       THEN Crash("pcache_malloc_zero", sz, "nullspace")
       ELSE \E o \in mspace_calloc(Heap, sz + padding) :
              wrap_alloc("pcache_malloc_zero", sz, o,
                         o.ptr # NULL /\ Dirty(mem, o.ptr + padding, sz))

\* void pcache_free(void *p)
pcache_free_nocheck(p) ==
    /\ ~crashed
    /\ IF \E c \in chunks : c.base = p - padding
       THEN /\ SetHeap(mspace_free(Heap, p - padding))
            /\ live' = {b \in live : b.p # p}
            /\ snap' = pages
            /\ last' = [op |-> "pcache_free", arg |-> p, ret |-> 0,
                        stage |-> "done"]
            /\ UNCHANGED <<resv, pcache_msp, use_lock, phase, crashed, base0,
                   spaces>>
       ELSE Crash("pcache_free", p, "wild")

pcache_free_nopad(p) ==
    /\ ~crashed
    /\ IF p = NULL
       THEN /\ snap' = pages
            /\ last' = [op |-> "pcache_free", arg |-> p, ret |-> 0,
                        stage |-> "done"]
            /\ UNCHANGED <<pages, mem, resv, pcache_msp, segs, use_lock, chunks,
                           live, phase, crashed, base0, nmmap,
                   spaces>>
       ELSE IF \E c \in chunks : c.base = p
            THEN /\ SetHeap(mspace_free(Heap, p))
                 /\ live' = {b \in live : b.p # p}
                 /\ snap' = pages
                 /\ last' = [op |-> "pcache_free", arg |-> p, ret |-> 0,
                             stage |-> "done"]
                 /\ UNCHANGED <<resv, pcache_msp, use_lock, phase, crashed, base0,
                   spaces>>
            ELSE Crash("pcache_free", p, "wild")

pcache_free(p) ==
    /\ ~crashed
    /\ IF p = NULL
       THEN /\ snap' = pages                                     \* if (!p) return;
            /\ last' = [op |-> "pcache_free", arg |-> p, ret |-> 0,
                        stage |-> "done"]
            /\ UNCHANGED <<pages, mem, resv, pcache_msp, segs, use_lock, chunks,
                           live, phase, crashed, base0, nmmap,
                   spaces>>
       ELSE /\ SetHeap(mspace_free(Heap, p - padding))
            /\ live' = {b \in live : b.p # p}
            /\ snap' = pages
            /\ last' = [op |-> "pcache_free", arg |-> p, ret |-> 0,
                        stage |-> "done"]
            /\ UNCHANGED <<resv, pcache_msp, use_lock, phase, crashed, base0,
                   spaces>>

\* the value pcache_memsize(p) returns when it does not fault
memsize_value(m, p) ==
    IF p = NULL THEN 0 ELSE load_int(m, p - padding)

\* int pcache_memsize(void *p)
pcache_memsize_nocheck(p) ==
    /\ ~crashed
    /\ IF can_access(pages, p - padding, SizeofSizeT)
       THEN /\ snap' = pages
            /\ last' = [op |-> "pcache_memsize", arg |-> p,
                        ret |-> load_int(mem, p - padding),
                        stage |-> "done"]
            /\ UNCHANGED <<pages, mem, resv, pcache_msp, segs, use_lock, chunks,
                           live, phase, crashed, base0, nmmap,
                   spaces>>
       ELSE Crash("pcache_memsize", p, "wild")

pcache_memsize(p) ==
    /\ ~crashed
    /\ IF p = NULL \/ can_access(pages, p - padding, SizeofSizeT)
       THEN /\ snap' = pages
            /\ last' = [op |-> "pcache_memsize", arg |-> p,
                        ret |-> memsize_value(mem, p), stage |-> "done"]
            /\ UNCHANGED <<pages, mem, resv, pcache_msp, segs, use_lock, chunks,
                           live, phase, crashed, base0, nmmap,
                   spaces>>
       ELSE Crash("pcache_memsize", p, "wild")

\* the holder of a block fills its s bytes
Scribble(b) ==
    /\ ~crashed
    /\ b.s > 0
    /\ mem' = memset(mem, b.p, 255, b.s)
    /\ snap' = pages
    /\ last' = [op |-> "write", arg |-> b.p, ret |-> 0, stage |-> "done"]
    /\ UNCHANGED <<pages, resv, pcache_msp, segs, use_lock, chunks, live, phase,
                   crashed, base0, nmmap,
                   spaces>>

\* the pointers a caller may pass: null, a block it holds, or the pointer the
\* last pcache_malloc / pcache_malloc_zero returned after the underlying call
\* had failed
Held ==
    {NULL} \cup {b.p : b \in live}
           \cup (IF last.op \in AllocOps /\ last.stage = "null" /\ ~crashed
                 THEN {last.ret} ELSE {})

\* the host calls pcache_meminit when no space is up and pcache_memdeinit when
\* one is
Call_pcache_meminit == phase = "down" /\ pcache_meminit /\ UNCHANGED <<tvars, hvars>>
Call_pcache_memdeinit == phase = "up" /\ pcache_memdeinit /\ UNCHANGED <<tvars, hvars>>
Call_pcache_malloc == \E sz \in Sizes : pcache_malloc(sz) /\ UNCHANGED <<tvars, hvars>>
Call_pcache_malloc_zero == \E sz \in Sizes : pcache_malloc_zero(sz) /\ UNCHANGED <<tvars, hvars>>
Call_pcache_free == \E p \in Held : pcache_free(p) /\ UNCHANGED <<tvars, hvars>>
Call_pcache_memsize == \E p \in Held : pcache_memsize(p) /\ UNCHANGED <<tvars, hvars>>
Call_write == \E b \in live : Scribble(b) /\ UNCHANGED <<tvars, hvars>>

Next ==
    \/ Call_pcache_meminit
    \/ Call_pcache_memdeinit
    \/ Call_pcache_malloc
    \/ Call_pcache_malloc_zero
    \/ Call_pcache_free
    \/ Call_pcache_memsize
    \/ Call_write

Spec == Init /\ [][Next]_vars

(***************************************************************************)
(* Threads.  Several threads call the interface at once; each call runs in  *)
(* the steps the allocator gives it.  PREACTION takes the space's lock only *)
(* when the space has its USE_LOCK_BIT; between PREACTION and POSTACTION a  *)
(* thread first finds its chunk and then takes it.                          *)
(***************************************************************************)
Threads == 1..NThreads

\* a thread between two calls, n calls behind it
Idle(n) == [pc |-> "idle", op |-> "none", arg |-> 0, cand |-> 0, ptr |-> 0, n |-> n]

CanCall(t) == tstate[t].pc = "idle" /\ tstate[t].n < MaxCalls

\* PREACTION(M): (use_lock(M) ? ACQUIRE_LOCK(&(M)->mutex) : 0)
PREACTION(t) ==
    IF use_lock THEN mutex = 0 /\ mutex' = t ELSE mutex' = mutex

\* POSTACTION(M): { if (use_lock(M)) RELEASE_LOCK(&(M)->mutex); }
POSTACTION(t) ==
    IF use_lock THEN mutex' = 0 ELSE mutex' = mutex

ThreadCrash(t, stage) ==
    /\ crashed' = TRUE
    /\ last' = [op |-> tstate[t].op, arg |-> tstate[t].arg, ret |-> NULL,
                stage |-> stage]
    /\ UNCHANGED <<pages, mem, resv, snap, pcache_msp, segs, use_lock, chunks,
                   live, phase, base0, nmmap, tstate, mutex,
                   spaces>>

\* a thread enters pcache_malloc(sz) or pcache_malloc_zero(sz)
T_call_alloc(t) ==
    \E op \in AllocOps, sz \in Sizes :
      /\ phase = "up" /\ ~crashed /\ pcache_msp # NULL
      /\ CanCall(t)
      /\ UNCHANGED hvars
      /\ tstate' = [tstate EXCEPT ![t] = [Idle(tstate[t].n + 1) EXCEPT
                                            !.pc = "pre", !.op = op, !.arg = sz]]
      /\ UNCHANGED <<pages, mem, resv, snap, last, pcache_msp, segs, use_lock,
                     chunks, live, phase, crashed, base0, nmmap, mutex,
                   spaces>>

\* a thread enters pcache_free(p) with a block it holds: the block is no
\* longer the caller's
T_call_free(t) ==
    \E b \in {x \in live : x.t = t} :
      /\ ~crashed
      /\ CanCall(t)
      /\ UNCHANGED hvars
      /\ tstate' = [tstate EXCEPT ![t] = [Idle(tstate[t].n + 1) EXCEPT
                                            !.pc = "pre", !.op = "pcache_free",
                                            !.arg = b.p]]
      /\ live' = live \ {b}
      /\ UNCHANGED <<pages, mem, resv, snap, last, pcache_msp, segs, use_lock,
                     chunks, phase, crashed, base0, nmmap, mutex,
                   spaces>>

\* a thread runs pcache_memsize(p) on a block it holds
T_memsize(t) ==
    \E b \in {x \in live : x.t = t} :
      /\ ~crashed
      /\ CanCall(t)
      /\ UNCHANGED hvars
      /\ tstate' = [tstate EXCEPT ![t].n = @ + 1]
      /\ last' = [op |-> "pcache_memsize", arg |-> b.p,
                  ret |-> memsize_value(mem, b.p), stage |-> "done"]
      /\ UNCHANGED <<pages, mem, resv, snap, pcache_msp, segs, use_lock, chunks,
                     live, phase, crashed, base0, nmmap, mutex,
                   spaces>>

\* PREACTION at the head of mspace_malloc / mspace_calloc / mspace_free
T_preaction(t) ==
    /\ ~crashed
    /\ tstate[t].pc = "pre"
    /\ UNCHANGED hvars
    /\ PREACTION(t)
    /\ tstate' = [tstate EXCEPT ![t].pc =
                     IF tstate[t].op = "pcache_free" THEN "unlink" ELSE "find"]
    /\ UNCHANGED <<pages, mem, resv, snap, last, pcache_msp, segs, use_lock,
                   chunks, live, phase, crashed, base0, nmmap,
                   spaces>>

\* mspace_malloc reads the bins and the top: the chunk it will take, or NULL
\* when nothing fits
T_find(t) ==
    /\ ~crashed
    /\ tstate[t].pc = "find"
    /\ UNCHANGED hvars
    /\ LET F == free_bases(segs, chunks, pad_request(tstate[t].arg + padding))
       IN \E b \in IF F = {} THEN {NULL} ELSE F :
            tstate' = [tstate EXCEPT ![t].pc = "take", ![t].cand = b]
    /\ UNCHANGED <<pages, mem, resv, snap, last, pcache_msp, segs, use_lock,
                   chunks, live, phase, crashed, base0, nmmap, mutex,
                   spaces>>

\* mspace_malloc takes the chunk it found (or maps a segment), mspace_calloc
\* clears it; POSTACTION
T_take(t) ==
    /\ ~crashed
    /\ tstate[t].pc = "take"
    /\ UNCHANGED hvars
    /\ LET n == tstate[t].arg + padding
           nb == pad_request(n)
           outs == IF tstate[t].cand = NULL
                   THEN sys_alloc(Heap, nb)
                   ELSE {[ptr |-> tstate[t].cand,
                          h |-> [Heap EXCEPT !.chunks =
                                   @ \cup {[base |-> tstate[t].cand, size |-> nb]}]]}
       IN \E o \in outs :
            /\ SetHeap(IF tstate[t].op = "pcache_malloc_zero" /\ o.ptr # NULL
                       THEN [o.h EXCEPT !.mem = memset(@, o.ptr, 0, n)]
                       ELSE o.h)
            /\ tstate' = [tstate EXCEPT ![t].pc = "store", ![t].ptr = o.ptr]
    /\ POSTACTION(t)
    /\ UNCHANGED <<resv, snap, last, pcache_msp, use_lock, live, phase, crashed,
                   base0,
                   spaces>>

\* the header store and the return of pcache_malloc / pcache_malloc_zero
T_store(t) ==
    /\ ~crashed
    /\ tstate[t].pc = "store"
    /\ UNCHANGED hvars
    /\ IF tstate[t].ptr = NULL
       THEN \/ ThreadCrash(t, "null")
            \/ /\ last' = [op |-> tstate[t].op, arg |-> tstate[t].arg,
                           ret |-> tstate[t].ptr + padding, stage |-> "null"]
               /\ tstate' = [tstate EXCEPT ![t] = Idle(tstate[t].n)]
               /\ UNCHANGED <<pages, mem, resv, snap, pcache_msp, segs, use_lock,
                              chunks, live, phase, crashed, base0, nmmap, mutex,
                   spaces>>
       ELSE /\ mem' = store_size_t(mem, tstate[t].ptr, tstate[t].arg + padding)
            /\ live' = live \cup {[p |-> tstate[t].ptr + padding,
                                   s |-> tstate[t].arg, t |-> t]}
            /\ last' = [op |-> tstate[t].op, arg |-> tstate[t].arg,
                        ret |-> tstate[t].ptr + padding, stage |-> "ok"]
            /\ tstate' = [tstate EXCEPT ![t] = Idle(tstate[t].n)]
            /\ UNCHANGED <<pages, resv, snap, pcache_msp, segs, use_lock, chunks,
                           phase, crashed, base0, nmmap, mutex,
                   spaces>>

\* mspace_free puts the chunk back; POSTACTION.  A chunk that is not in use
\* any more (freed through another pointer to it) is a usage error: abort.
T_unlink(t) ==
    /\ ~crashed
    /\ tstate[t].pc = "unlink"
    /\ UNCHANGED hvars
    /\ IF \E c \in chunks : c.base = tstate[t].arg - padding
       THEN /\ SetHeap(mspace_free(Heap, tstate[t].arg - padding))
            /\ POSTACTION(t)
            /\ last' = [op |-> "pcache_free", arg |-> tstate[t].arg, ret |-> 0,
                        stage |-> "done"]
            /\ tstate' = [tstate EXCEPT ![t] = Idle(tstate[t].n)]
            /\ UNCHANGED <<resv, snap, pcache_msp, use_lock, live, phase, crashed,
                           base0,
                   spaces>>
       ELSE ThreadCrash(t, "wild")

\* pcache_meminit, before any thread has started
T_meminit ==
    /\ \A t \in Threads : tstate[t].pc = "idle"
    /\ phase = "down"
    /\ pcache_meminit
    /\ UNCHANGED <<tvars, hvars>>

NextThreads ==
    \/ T_meminit
    \/ \E t \in Threads : T_call_alloc(t)
    \/ \E t \in Threads : T_call_free(t)
    \/ \E t \in Threads : T_memsize(t)
    \/ \E t \in Threads : T_preaction(t)
    \/ \E t \in Threads : T_find(t)
    \/ \E t \in Threads : T_take(t)
    \/ \E t \in Threads : T_store(t)
    \/ \E t \in Threads : T_unlink(t)

SpecThreads == Init /\ [][NextThreads]_vars

(***************************************************************************)
(* Sizes at their full width.  A size_t is its SizeofSizeT bytes, least     *)
(* significant first, so that sz + padding and the conversion to int are    *)
(* computed as the machine computes them.  The block itself is not kept:    *)
(* only the request, the header written for it and the value returned.      *)
(***************************************************************************)
\* the bytes of a size that the model's integers can hold
size_t_bytes(n) == [i \in 0..(SizeofSizeT - 1) |-> ShiftRight8(n, i) % 256]

\* a + b in size_t: byte by byte, the carry out of the last byte is dropped
add_size_t(a, b) ==
    LET c[i \in 0..SizeofSizeT] ==
            IF i = 0 THEN 0 ELSE (a[i - 1] + b[i - 1] + c[i - 1]) \div 256
    IN [i \in 0..(SizeofSizeT - 1) |-> (a[i] + b[i] + c[i]) % 256]

\* sz + padding, as pcache_malloc passes it on and writes it to the header
header_value(w) == add_size_t(w, size_t_bytes(padding))

\* a request the underlying mspace_malloc can serve when memory is there:
\* below 2^48, the size of a user address space
can_serve(n) == n[6] = 0 /\ n[7] = 0

\* the requests tried: the bytes around every carry and around the sign bit
\* of int
WideSizes ==
    {[i \in 0..(SizeofSizeT - 1) |->
         IF i = 0 THEN b0 ELSE IF i = 3 THEN b3
         ELSE IF i <= k THEN 255 ELSE 0]
     : b0 \in {0, 1, 247, 248, 255}, b3 \in {0, 127, 128, 255},
       k \in 0..(SizeofSizeT - 1)}

\* pcache_malloc(sz): the underlying call serves sz + padding or returns null
Wide_pcache_malloc ==
    \E w \in WideSizes :
      \E served \in {s \in BOOLEAN : s => can_serve(header_value(w))} :
        /\ ~crashed
        /\ last' = [op |-> "pcache_malloc", arg |-> w, hdr |-> header_value(w),
                    ret |-> IF served THEN 1 ELSE NULL,
                    stage |-> IF served THEN "ok" ELSE "null"]
        /\ UNCHANGED <<pages, mem, resv, snap, pcvars, tvars, hvars>>

\* pcache_memsize(p) of the block the last pcache_malloc returned
Wide_pcache_memsize ==
    /\ ~crashed
    /\ last.op = "pcache_malloc"
    /\ last.stage = "ok"
    /\ last' = [op |-> "pcache_memsize", arg |-> last.arg, hdr |-> last.hdr,
                ret |-> load_int(last.hdr, 0), stage |-> "done"]
    /\ UNCHANGED <<pages, mem, resv, snap, pcvars, tvars, hvars>>

(***************************************************************************)
(* The life of the space when nothing orders the two lifecycle calls.       *)
(***************************************************************************)
Life_pcache_meminit == pcache_meminit /\ UNCHANGED <<tvars, hvars>>
Life_pcache_memdeinit == pcache_memdeinit /\ UNCHANGED <<tvars, hvars>>

\* in between, blocks are allocated and freed while a space is up
NextLife ==
    \/ Life_pcache_meminit
    \/ Life_pcache_memdeinit
    \/ Call_pcache_malloc
    \/ Call_pcache_free

SpecLife == Init /\ [][NextLife]_vars

NextWide == Wide_pcache_malloc \/ Wide_pcache_memsize

SpecWide == Init /\ [][NextWide]_vars

(***************************************************************************)
(* AbstractHandle: one handle over the engine's C API.  The engine is kept  *)
(* as `db`: the connections opened and not closed, and for the connection   *)
(* in use its autocommit flag, its stack of savepoints, its last result     *)
(* code and its prepared statements.  A call on the handle is computed on   *)
(* the record of the handle's fields; each operator gives the outcomes the  *)
(* call can have, one for every way the engine may answer.                  *)
(***************************************************************************)
MaxConns == 2          \* connections the engine can hold at once
MaxStatements == 2     \* statements in m_handleStatements
MaxNested == 2         \* largest m_nestedLevel a begin is called at
MaxSavepoints == 3     \* savepoints on the connection's stack
MaxIgnorable == 1      \* codes on m_ignorableCodes between calls
MaxDepth == 3          \* nested transactions a caller begins inside one another

\* result codes the engine may answer to any statement, and to none
FailCodes == {"BUSY"}
NoFail == {}

\* the handle's fields and the engine, as one value
Handle ==
    [m_handle |-> m_handle, m_nestedLevel |-> m_nestedLevel,
     m_lazyNestedTransaction |-> m_lazyNestedTransaction,
     m_handleStatements |-> m_handleStatements,
     m_ignorableCodes |-> m_ignorableCodes, m_error |-> m_error,
     db |-> db, trace |-> <<>>]

SetHandle(h) ==
    /\ m_handle' = h.m_handle
    /\ m_nestedLevel' = h.m_nestedLevel
    /\ m_lazyNestedTransaction' = h.m_lazyNestedTransaction
    /\ m_handleStatements' = h.m_handleStatements
    /\ m_ignorableCodes' = h.m_ignorableCodes
    /\ m_error' = h.m_error
    /\ db' = h.db
    /\ trace' = h.trace

\* one entry of the trace: what was called, on what, with what result, and
\* for a statement whether the connection was in a transaction afterwards
Ev(e, a, b) == [ev |-> e, a |-> a, b |-> b, t |-> FALSE]

Log(h, e) == [h EXCEPT !.trace = Append(@, e)]

\* a statement: its verb and the savepoint it names (0 when it names none)
Sql(verb, name) == [verb |-> verb, name |-> name]

\* the place of the innermost savepoint called name, 0 when there is none
LastIndex(sp, name) ==
    LET I == {i \in 1..Len(sp) : sp[i] = name}
    IN IF I = {} THEN 0 ELSE CHOOSE i \in I : \A j \in I : j <= i

\* the engine runs a statement to its end: the result code and the connection
\* afterwards.  SAVEPOINT is only run inside a transaction.
sql_run(d, sql) ==
    CASE sql.verb = "BEGIN IMMEDIATE" ->
           IF d.autocommit
           THEN [rc |-> "OK", db |-> [d EXCEPT !.autocommit = FALSE]]
           ELSE [rc |-> "ERROR", db |-> d]
      [] sql.verb \in {"COMMIT", "ROLLBACK"} ->
           IF ~d.autocommit
           THEN [rc |-> "OK", db |-> [d EXCEPT !.autocommit = TRUE,
                                              !.savepoints = <<>>]]
           ELSE [rc |-> "ERROR", db |-> d]
      [] sql.verb = "SAVEPOINT" ->
           [rc |-> "OK", db |-> [d EXCEPT !.autocommit = FALSE,
                                         !.savepoints = Append(@, sql.name)]]
      [] sql.verb = "RELEASE" ->
           LET i == LastIndex(d.savepoints, sql.name)
           IN IF i = 0 THEN [rc |-> "ERROR", db |-> d]
              ELSE [rc |-> "OK",
                    db |-> [d EXCEPT !.savepoints = SubSeq(@, 1, i - 1)]]
      [] sql.verb = "ROLLBACK TO" ->
           LET i == LastIndex(d.savepoints, sql.name)
           IN IF i = 0 THEN [rc |-> "ERROR", db |-> d]
              ELSE [rc |-> "OK",
                    db |-> [d EXCEPT !.savepoints = SubSeq(@, 1, i)]]
      [] OTHER -> [rc |-> "OK", db |-> d]

\* the answers of the engine to a statement: what the statement does; for a
\* SELECT the object it names may be unknown (SQLITE_ERROR); and any code of
\* `codes`, after which the engine may have rolled the transaction back
sqlite3_answers(d, sql, codes) ==
    LET set(o) == [rc |-> o.rc, db |-> [o.db EXCEPT !.errcode = o.rc]]
    IN {set(sql_run(d, sql))}
       \cup (IF sql.verb = "SELECT" THEN {set([rc |-> "ERROR", db |-> d])} ELSE {})
       \cup {set([rc |-> c, db |-> d]) : c \in codes}
       \cup {set([rc |-> c, db |-> [d EXCEPT !.autocommit = TRUE,
                                             !.savepoints = <<>>]])
             : c \in {x \in codes : ~d.autocommit}}

\* bool isOpened() const
isOpened(h) == h.m_handle # NULL

\* bool isInTransaction(): sqlite3_get_autocommit(m_handle) == 0
isInTransaction(h) == ~h.db.autocommit

\* Error::Code getResultCode(): sqlite3_errcode(m_handle)
getResultCode(h) == h.db.errcode

\* bool isError(int rc)
isError(rc) == rc \notin {"OK", "ROW", "DONE"}

\* void notifyError(int rc, const char *sql)
notifyError_always_error(h, rc) ==
    Log([h EXCEPT !.m_error = [code |-> rc, level |-> "Error"]],
        Ev("notify", rc, "Error"))

notifyError(h, rc) ==
    LET level == IF \E i \in 1..Len(h.m_ignorableCodes) : h.m_ignorableCodes[i] = rc
                 THEN "Ignore" ELSE "Error"
    IN Log([h EXCEPT !.m_error = [code |-> rc, level |-> level]],
           Ev("notify", rc, level))

\* bool exitAPI(int rc)
exitAPI(h, rc) ==
    IF ~isError(rc)
    THEN [ret |-> TRUE, h |-> h]
    ELSE [ret |-> FALSE, h |-> notifyError(h, rc)]

\* void markErrorAsIgnorable(Error::Code ignorableCode)
markErrorAsIgnorable(h, ignorableCode) ==
    [h EXCEPT !.m_ignorableCodes = Append(@, ignorableCode)]

\* void markErrorAsUnignorable()
markErrorAsUnignorable(h) ==
    [h EXCEPT !.m_ignorableCodes = SubSeq(@, 1, Len(@) - 1)]

\* WCTRemedialAssert failing: the message is notified as fatal, then the
\* remedial statement runs
fatal(h) == Log(h, Ev("fatal", 0, 0))

\* bool executeSQL(const String &sql): a statement of its own is prepared,
\* stepped and finalized; a failure of prepare or step goes through exitAPI
executeSQL(h, sql, codes) ==
    {LET e == [Ev("exec", sql, o.rc) EXCEPT !.t = ~o.db.autocommit]
         x == exitAPI(Log([h EXCEPT !.db = o.db], e), o.rc)
     IN [ret |-> x.ret, h |-> x.h]
     : o \in sqlite3_answers(h.db, sql, codes)}

\* bool executeStatement(const Statement &statement)
executeStatement(h, statement, codes) == executeSQL(h, statement, codes)

(***************************************************************************)
(* Statements of the handle.                                                *)
(***************************************************************************)
\* one id more than the list holds for callers: the statement tableExists
\* takes for itself
StatementIds == 1..(MaxStatements + 1)

\* the statements in m_handleStatements
Listed(h) == {h.m_handleStatements[i] : i \in 1..Len(h.m_handleStatements)}

\* HandleStatement *getStatement(): a new statement at the back of the list
getStatement(h, s) == [h EXCEPT !.m_handleStatements = Append(@, s)]

\* HandleStatement::finalize(): sqlite3_finalize when a statement is prepared
finalize(h, s) ==
    IF s \in h.db.prepared
    THEN Log([h EXCEPT !.db.prepared = @ \ {s}], Ev("finalize", s, 0))
    ELSE h

\* the answers of the engine to sqlite3_prepare_v2: the statement compiles,
\* or not, and nothing else changes
sqlite3_prepare_answers(statement, codes) ==
    {"OK"} \cup (IF statement.verb = "SELECT" THEN {"ERROR"} ELSE {}) \cup codes

\* HandleStatement::prepare(statement) of a statement that is not prepared:
\* sqlite3_prepare_v2, then exitAPI
prepare(h, s, statement, codes) ==
    {LET h1 == [h EXCEPT !.db.errcode = rc,
                         !.db.prepared = IF rc = "OK" THEN @ \cup {s} ELSE @]
         x == exitAPI(Log(h1, Ev("prepare", s, rc)), rc)
     IN [ret |-> x.ret, h |-> x.h]
     : rc \in sqlite3_prepare_answers(statement, codes)}

\* void returnStatement(HandleStatement *handleStatement): the statement is
\* erased from the list, and finalized as it is destroyed
returnStatement(h, s) ==
    LET kept == SelectSeq(h.m_handleStatements, LAMBDA x : x # s)
    IN IF s \in Listed(h)
       THEN finalize([h EXCEPT !.m_handleStatements = kept], s)
       ELSE h

\* void finalizeStatements(): every statement of the list, in the list's order
finalizeStatements(h) ==
    LET f[i \in 0..Len(h.m_handleStatements)] ==
            IF i = 0 THEN h ELSE finalize(f[i - 1], h.m_handleStatements[i])
    IN f[Len(h.m_handleStatements)]

(***************************************************************************)
(* Transactions.                                                            *)
(***************************************************************************)
\* String getSavepointName(int nestedLevel)
getSavepointName(nestedLevel) == <<"WCDBSavepoint_", nestedLevel>>

\* void enableLazyNestedTransaction(bool enable)
enableLazyNestedTransaction(h, enable) ==
    [h EXCEPT !.m_lazyNestedTransaction = enable]

\* bool beginTransaction()
beginTransaction(h, codes) == executeSQL(h, Sql("BEGIN IMMEDIATE", 0), codes)

\* void rollbackTransaction()
rollbackTransaction(h, codes) ==
    LET h1 == [h EXCEPT !.m_nestedLevel = 0]
    IN IF isInTransaction(h1)
       THEN {[ret |-> TRUE, h |-> o.h] : o \in executeSQL(h1, Sql("ROLLBACK", 0), codes)}
       ELSE {[ret |-> TRUE, h |-> h1]}

\* bool commitOrRollbackTransaction()
commitOrRollbackTransaction_keeps_level(h, codes) ==
    UNION {IF o.ret
           THEN {[ret |-> TRUE, h |-> o.h]}
           ELSE {[ret |-> FALSE, h |-> r.h] : r \in rollbackTransaction(o.h, codes)}
           : o \in executeSQL(h, Sql("COMMIT", 0), codes)}

commitOrRollbackTransaction(h, codes) ==
    UNION {IF o.ret
           THEN {[ret |-> TRUE, h |-> [o.h EXCEPT !.m_nestedLevel = 0]]}
           ELSE {[ret |-> FALSE, h |-> r.h] : r \in rollbackTransaction(o.h, codes)}
           : o \in executeSQL(h, Sql("COMMIT", 0), codes)}

\* bool beginNestedTransaction()
beginNestedTransaction(h, codes) ==
    IF isInTransaction(h)
    THEN IF ~h.m_lazyNestedTransaction
         THEN LET h1 == [h EXCEPT !.m_nestedLevel = @ + 1]
              IN executeStatement(
                     h1, Sql("SAVEPOINT", getSavepointName(h1.m_nestedLevel)), codes)
         ELSE {[ret |-> TRUE, h |-> h]}
    ELSE beginTransaction(h, codes)

\* bool commitOrRollbackNestedTransaction()
commitOrRollbackNestedTransaction(h, codes) ==
    IF h.m_nestedLevel = 0
    THEN commitOrRollbackTransaction(h, codes)
    ELSE IF ~h.m_lazyNestedTransaction
         THEN LET savepointName == getSavepointName(h.m_nestedLevel)
              IN UNION {IF o.ret
                        THEN {[ret |-> TRUE,
                               h |-> [o.h EXCEPT !.m_nestedLevel = @ - 1]]}
                        ELSE {[ret |-> FALSE,
                               h |-> [r.h EXCEPT !.m_nestedLevel = @ - 1]]
                              : r \in executeStatement(
                                         o.h, Sql("ROLLBACK TO", savepointName),
                                         codes)}
                        : o \in executeStatement(
                                   h, Sql("RELEASE", savepointName), codes)}
         ELSE {[ret |-> TRUE, h |-> h]}

\* void rollbackNestedTransaction()
rollbackNestedTransaction(h, codes) ==
    IF h.m_nestedLevel = 0
    THEN rollbackTransaction(h, codes)
    ELSE IF ~h.m_lazyNestedTransaction
         THEN LET savepointName == getSavepointName(h.m_nestedLevel)
              IN {[ret |-> TRUE, h |-> [o.h EXCEPT !.m_nestedLevel = @ - 1]]
                  : o \in executeStatement(
                             h, Sql("ROLLBACK TO", savepointName), codes)}
         ELSE {[ret |-> TRUE, h |-> h]}

(***************************************************************************)
(* Opening and closing.                                                     *)
(***************************************************************************)
Conns == 1..MaxConns

\* a connection as sqlite3_open leaves it, with result code rc
Connection(d, c, rc) ==
    [open |-> d.open \cup {c}, autocommit |-> TRUE, savepoints |-> <<>>,
     errcode |-> rc, prepared |-> {}]

\* sqlite3_open(path, &m_handle): the result code, the handle stored and the
\* engine afterwards.  A failing open still stores a connection, which is to
\* be closed like any other, unless not even that could be allocated.
sqlite3_open(d, codes) ==
    LET free == Conns \ d.open
        c == CHOOSE x \in free : \A y \in free : x <= y
    IN (IF free = {} THEN {}
        ELSE {[rc |-> "OK", handle |-> c, db |-> Connection(d, c, "OK")]}
             \cup {[rc |-> "CANTOPEN", handle |-> c,
                    db |-> Connection(d, c, "CANTOPEN")] : x \in codes})
       \cup {[rc |-> "NOMEM", handle |-> NULL, db |-> d]
             : x \in IF free = {} THEN {"NOMEM"} ELSE codes}

\* sqlite3_close_v2(m_handle): the connection is gone, its transaction with it
sqlite3_close_v2(h) ==
    Log([h EXCEPT !.db.open = @ \ {h.m_handle},
                  !.db.autocommit = TRUE,
                  !.db.savepoints = <<>>,
                  !.db.errcode = "OK"],
        Ev("close_v2", h.m_handle, "OK"))

\* void close(): the handles it can leave behind
close_no_finalize(h, codes) ==
    IF h.m_handle # NULL
    THEN LET after == IF h.m_nestedLevel = 0 /\ ~isInTransaction(h)
                      THEN {h}
                      ELSE {o.h : o \in rollbackTransaction(fatal(h), codes)}
         IN {[sqlite3_close_v2(Log(h2, Ev("purge", 0, 0))) EXCEPT !.m_handle = NULL]
             : h2 \in after}
    ELSE {h}

close(h, codes) ==
    IF h.m_handle # NULL
    THEN LET h1 == finalizeStatements(h)
             \* WCTRemedialAssert(m_nestedLevel == 0 && !isInTransaction(), ...,
             \*                   rollbackTransaction();)
             after == IF h1.m_nestedLevel = 0 /\ ~isInTransaction(h1)
                      THEN {h1}
                      ELSE {o.h : o \in rollbackTransaction(fatal(h1), codes)}
         IN {[sqlite3_close_v2(Log(h2, Ev("purge", 0, 0))) EXCEPT !.m_handle = NULL]
             : h2 \in after}
    ELSE {h}

\* bool open()
open(h, codes) ==
    LET \* WCTRemedialAssert(!isOpened(), "Handle is already opened.", close();)
        starts == IF ~isOpened(h) THEN {h} ELSE close(fatal(h), codes)
    IN UNION {{LET h1 == Log([h0 EXCEPT !.m_handle = o.handle, !.db = o.db],
                             Ev("open", o.handle, o.rc))
                   x == exitAPI(h1, o.rc)
               IN [ret |-> x.ret,
                   h |-> IF x.ret THEN x.h ELSE [x.h EXCEPT !.m_handle = NULL]]
               : o \in sqlite3_open(h0.db, codes)}
              : h0 \in starts}

(***************************************************************************)
(* Meta.                                                                    *)
(***************************************************************************)
\* std::pair<bool, bool> ft3TokenizerExists(const String &tokenizer)
ft3TokenizerExists(h, codes) ==
    {LET h1 == markErrorAsUnignorable(o.h)
         succeed == IF o.ret THEN TRUE ELSE getResultCode(h1) = "ERROR"
     IN [ret |-> <<succeed, o.ret>>, h |-> h1]
     : o \in executeStatement(markErrorAsIgnorable(h, "ERROR"), Sql("SELECT", 0),
                              codes)}

\* std::pair<bool, bool> tableExists(const Schema &schema, const String &table);
\* s is the statement getStatement() puts at the back of the list
tableExists(h, s, codes) ==
    {LET h1 == IF o.ret THEN finalizeStatements(o.h) ELSE o.h
         succeed == IF o.ret THEN TRUE ELSE getResultCode(h1) = "ERROR"
     IN [ret |-> <<succeed, o.ret>>,
         h |-> returnStatement(markErrorAsUnignorable(h1), s)]
     : o \in prepare(markErrorAsIgnorable(getStatement(h, s), "ERROR"), s,
                     Sql("SELECT", 0), codes)}

(***************************************************************************)
(* Calls on the handle.                                                     *)
(***************************************************************************)
allocvars == <<pages, mem, resv, snap, last, pcvars, tvars>>

\* a call named op takes one of its outcomes
Does(op, outs) ==
    \E o \in outs :
      /\ SetHandle(o.h)
      /\ hlast' = [op |-> op, ret |-> o.ret]

\* the id getStatement gives the next statement
NewStatement(h) ==
    CHOOSE s \in StatementIds \ Listed(h) :
      \A x \in StatementIds \ Listed(h) : s <= x

\* a begin may be called: the level and the stack of savepoints have room
Room == m_nestedLevel < MaxNested /\ Len(db.savepoints) < MaxSavepoints

H_open ==
    /\ Does("open", open(Handle, FailCodes))
    /\ UNCHANGED <<depth, allocvars>>

H_close ==
    /\ Does("close", {[ret |-> TRUE, h |-> x] : x \in close(Handle, FailCodes)})
    /\ UNCHANGED <<depth, allocvars>>

H_getStatement ==
    /\ Len(m_handleStatements) < MaxStatements
    /\ Does("getStatement",
            {[ret |-> NewStatement(Handle),
              h |-> getStatement(Handle, NewStatement(Handle))]})
    /\ UNCHANGED <<depth, allocvars>>

\* the holder of a statement prepares it
H_prepare ==
    /\ m_handle # NULL
    /\ \E s \in Listed(Handle) \ db.prepared :
         Does("prepare", prepare(Handle, s, Sql("SELECT", 0), FailCodes))
    /\ UNCHANGED <<depth, allocvars>>

H_returnStatement ==
    /\ \E s \in Listed(Handle) :
         Does("returnStatement", {[ret |-> s, h |-> returnStatement(Handle, s)]})
    /\ UNCHANGED <<depth, allocvars>>

H_tableExists ==
    /\ m_handle # NULL
    /\ Does("tableExists", tableExists(Handle, NewStatement(Handle), FailCodes))
    /\ UNCHANGED <<depth, allocvars>>

H_ft3TokenizerExists ==
    /\ m_handle # NULL
    /\ Does("ft3TokenizerExists", ft3TokenizerExists(Handle, FailCodes))
    /\ UNCHANGED <<depth, allocvars>>

\* a caller marks a code ignorable around calls of its own
H_markErrorAsIgnorable ==
    /\ Len(m_ignorableCodes) < MaxIgnorable
    /\ \E code \in {"ERROR"} \cup FailCodes :
         Does("markErrorAsIgnorable",
              {[ret |-> TRUE, h |-> markErrorAsIgnorable(Handle, code)]})
    /\ UNCHANGED <<depth, allocvars>>

H_markErrorAsUnignorable ==
    /\ m_ignorableCodes # <<>>
    /\ Does("markErrorAsUnignorable",
            {[ret |-> TRUE, h |-> markErrorAsUnignorable(Handle)]})
    /\ UNCHANGED <<depth, allocvars>>

H_beginTransaction ==
    /\ m_handle # NULL
    /\ Does("beginTransaction", beginTransaction(Handle, FailCodes))
    /\ UNCHANGED <<depth, allocvars>>

H_commitOrRollbackTransaction ==
    /\ m_handle # NULL
    /\ Does("commitOrRollbackTransaction",
            commitOrRollbackTransaction(Handle, FailCodes))
    /\ UNCHANGED <<depth, allocvars>>

H_rollbackTransaction ==
    /\ m_handle # NULL
    /\ Does("rollbackTransaction", rollbackTransaction(Handle, FailCodes))
    /\ UNCHANGED <<depth, allocvars>>

H_beginNestedTransaction ==
    /\ m_handle # NULL
    /\ Room
    /\ Does("beginNestedTransaction", beginNestedTransaction(Handle, FailCodes))
    /\ UNCHANGED <<depth, allocvars>>

H_commitOrRollbackNestedTransaction ==
    /\ m_handle # NULL
    /\ Does("commitOrRollbackNestedTransaction",
            commitOrRollbackNestedTransaction(Handle, FailCodes))
    /\ UNCHANGED <<depth, allocvars>>

H_rollbackNestedTransaction ==
    /\ m_handle # NULL
    /\ Does("rollbackNestedTransaction",
            rollbackNestedTransaction(Handle, FailCodes))
    /\ UNCHANGED <<depth, allocvars>>

\* the handle with its statements, opened and closed in and out of
\* transactions
NextHandle ==
    \/ H_open
    \/ H_close
    \/ H_getStatement
    \/ H_prepare
    \/ H_returnStatement
    \/ H_beginNestedTransaction

SpecHandle == Init /\ [][NextHandle]_vars

\* the handle and the two existence probes, between callers that mark codes
\* ignorable themselves
NextMeta ==
    \/ H_open
    \/ H_getStatement
    \/ H_prepare
    \/ H_tableExists
    \/ H_ft3TokenizerExists
    \/ H_markErrorAsIgnorable
    \/ H_markErrorAsUnignorable

SpecMeta == Init /\ [][NextMeta]_vars

\* the six transaction calls on a handle, every statement free to fail;
\* m_lazyNestedTransaction stays as the constructor set it
NextTxn ==
    \/ H_open
    \/ H_beginTransaction
    \/ H_commitOrRollbackTransaction
    \/ H_rollbackTransaction
    \/ H_beginNestedTransaction
    \/ H_commitOrRollbackNestedTransaction
    \/ H_rollbackNestedTransaction

SpecTxn == Init /\ [][NextTxn]_vars

\* a caller that nests transactions well: every commit ends the innermost
\* transaction it has begun; no statement fails for a reason of the engine's
N_open ==
    /\ m_handle = NULL
    /\ Does("open", open(Handle, NoFail))
    /\ UNCHANGED <<depth, allocvars>>

N_enableLazyNestedTransaction ==
    /\ \E enable \in BOOLEAN :
         Does("enableLazyNestedTransaction",
              {[ret |-> TRUE, h |-> enableLazyNestedTransaction(Handle, enable)]})
    /\ UNCHANGED <<depth, allocvars>>

N_beginNestedTransaction ==
    /\ m_handle # NULL
    /\ depth < MaxDepth
    /\ Room
    /\ Does("beginNestedTransaction", beginNestedTransaction(Handle, NoFail))
    /\ depth' = depth + 1
    /\ UNCHANGED allocvars

N_commitOrRollbackNestedTransaction ==
    /\ m_handle # NULL
    /\ depth > 0
    /\ Does("commitOrRollbackNestedTransaction",
            commitOrRollbackNestedTransaction(Handle, NoFail))
    /\ depth' = depth - 1
    /\ UNCHANGED allocvars

NextNested ==
    \/ N_open
    \/ N_enableLazyNestedTransaction
    \/ N_beginNestedTransaction
    \/ N_commitOrRollbackNestedTransaction

SpecNested == Init /\ [][NextNested]_vars

(***************************************************************************)
(* Claims about the guarded arena, checked under SpecArena.                 *)
(***************************************************************************)
\* the usable size after the kernel's rounding to whole pages
RoundPage(sz) == PagesFor(sz) * PageSize

\* C4: a failed mmap_impl, whether mmap or mprotect failed, leaves the page
\* table as it was before the call: nothing of the reservation stays mapped.
C4_FailedReserveRestores ==
    (last.op = "mmap_impl" /\ last.ret = MAP_FAILED) => pages = snap

\* C4 witness: mprotect failed after mmap succeeded, next to a live reservation
C4_Witness ==
    /\ last.op = "mmap_impl"
    /\ last.ret = MAP_FAILED
    /\ last.stage = "mprotect"
    /\ resv # {}

\* C5 as claimed: every live reservation is read/write on exactly its sz bytes,
\* and the page before its first byte and the page after its last byte are
\* PROT_NONE.
C5_ExactSizeGuarded ==
    \A r \in resv :
      /\ \A a \in r.addr..(r.addr + r.sz - 1) : Prot(pages, a) = "rw"
      /\ \A a \in (r.addr - PageSize)..(r.addr - 1) : Prot(pages, a) = "none"
      /\ \A a \in (r.addr + r.sz)..(r.addr + r.sz + PageSize - 1) :
            Prot(pages, a) = "none"

\* C5 amended: every live reservation is read/write on its sz bytes rounded up
\* to whole pages, and the page before that region and the page after it are
\* PROT_NONE.
C5_RoundedSizeGuarded ==
    \A r \in resv :
      /\ \A a \in r.addr..(r.addr + RoundPage(r.sz) - 1) : Prot(pages, a) = "rw"
      /\ \A a \in (r.addr - PageSize)..(r.addr - 1) : Prot(pages, a) = "none"
      /\ \A a \in (r.addr + RoundPage(r.sz))..(r.addr + RoundPage(r.sz) + PageSize - 1) :
            Prot(pages, a) = "none"

\* C5 witness: a live reservation of a size that is no multiple of the page
\* size, after another reservation has been released
C5_Witness ==
    /\ last.op = "munmap_impl"
    /\ \E r \in resv : r.sz % PageSize # 0

\* C8: munmap_impl(a, sz) of a reservation unmaps exactly the pages its
\* mmap_impl mapped and changes no other page; right after the reserve it
\* restores the page table the reserve started from.
C8_ReleaseUndoesReserve ==
    [][\A r \in resv \ resv' :
          /\ pages' = [p \in PageNos |->
                          IF p \in r.pgs THEN "unmapped" ELSE pages[p]]
          /\ (last.op = "mmap_impl" /\ last.ret = r.addr) => pages' = snap]_vars

\* C8 witness: a reserve directly followed by its release, with another
\* reservation live
C8_Witness ==
    /\ last.op = "munmap_impl"
    /\ last.stage = "roundtrip"
    /\ resv # {}

(***************************************************************************)
(* Claims about the public interface, checked under Spec.                   *)
(***************************************************************************)
\* C1 as claimed: when the underlying mspace_malloc / mspace_calloc returned
\* null, pcache_malloc / pcache_malloc_zero return null and the process goes
\* on; any non-null pointer they return is backed by a chunk of the space.
C1_NullOnFailure ==
    /\ (last.op \in AllocOps /\ last.stage = "null")
          => (~crashed /\ last.ret = NULL)
    /\ (last.op \in AllocOps /\ ~crashed /\ last.ret # NULL)
          => \E c \in chunks : c.base = last.ret - padding

\* C2: the header before every block a caller holds reads s + padding, so
\* pcache_memsize(p) - padding is the size s the block was allocated with,
\* whatever has been allocated, freed, written or queried since.
C2_HeaderKept ==
    \A b \in live :
      /\ can_access(pages, b.p - padding, SizeofSizeT)
      /\ load_size_t(mem, b.p - padding) = b.s + padding
      /\ memsize_value(mem, b.p) - padding = b.s

\* C2 witness: a block is still held after a later block was allocated next to
\* it, written and freed
C2_Witness ==
    /\ last.op = "pcache_free"
    /\ last.arg # NULL
    /\ last.arg \in Addrs
    /\ mem[last.arg] = 255
    /\ \E b \in live : b.p < last.arg /\ b.s > 0

\* C6: pcache_free(NULL) changes nothing and pcache_memsize(NULL) returns 0
\* and changes nothing, in every phase of the space's life.
C6_NullIsNoop ==
    [][(last'.op \in {"pcache_free", "pcache_memsize"} /\ last'.arg = NULL)
          => /\ UNCHANGED <<pages, mem, resv, pcache_msp, segs, use_lock, chunks,
                            live, phase, crashed, base0, nmmap,
                   spaces>>
             /\ last'.ret = 0]_vars

\* C6 witness: pcache_free(NULL) after pcache_memdeinit, when pcache_msp
\* still holds the address of the destroyed space
C6_Witness ==
    /\ last.op = "pcache_free"
    /\ last.arg = NULL
    /\ phase = "down"
    /\ pcache_msp # NULL

\* C7: the s bytes of a block pcache_malloc_zero returns all read as zero, and
\* the header before them holds s + padding.
C7_ZeroFilled ==
    (last.op = "pcache_malloc_zero" /\ last.stage \in {"ok", "dirty"})
      => /\ \A x \in last.ret..(last.ret + last.arg - 1) : mem[x] = 0
         /\ load_size_t(mem, last.ret - padding) = last.arg + padding

\* C7 witness: pcache_malloc_zero returned bytes that were not zero before
\* the call
C7_Witness ==
    /\ last.op = "pcache_malloc_zero"
    /\ last.stage = "dirty"
    /\ last.arg > 0

\* C9: when pcache_memdeinit has returned, the page table is what it was when
\* pcache_meminit was called: every segment the space mapped is unmapped.
C9_DeinitReleasesAll ==
    (last.op = "pcache_memdeinit" /\ ~crashed)
      => (pages = base0 /\ segs = {})

\* C9 witness: pcache_memdeinit of a space that had grown by a segment and
\* still had a block allocated
C9_Witness ==
    /\ last.op = "pcache_memdeinit"
    /\ ~crashed
    /\ nmmap >= 2

C11_SegmentsGuarded ==
    \A s \in segs :
      /\ \A a \in (s.base - PageSize)..(s.base - 1) : Prot(pages, a) = "none"
      /\ \A a \in (s.base + s.size)..(s.base + s.size + PageSize - 1) :
            Prot(pages, a) = "none"

\* C13: pcache_free(p) with p not null hands p - padding to mspace_free.  When
\* that is null (p came from an allocate call whose underlying call failed)
\* nothing is freed; otherwise it is the base of a chunk in use, the one the
\* underlying allocate returned for the block p that the caller holds, and
\* after the call that chunk is not in use and the block is not held.
C13_FreePassesBase ==
    [][(last'.op = "pcache_free" /\ last'.arg # NULL /\ ~crashed')
          => LET b == last'.arg - padding
             IN IF b = NULL
                THEN UNCHANGED <<pages, mem, segs, chunks, live>>
                ELSE /\ \E c \in chunks : c.base = b /\ chunks' = chunks \ {c}
                     /\ \E x \in live : x.p = last'.arg
                     /\ \A x \in live' : x.p # last'.arg
                     /\ \A x \in live : x.p # last'.arg => x \in live']_vars

\* C13 witness: a held block was freed while the chunk right after it is
\* still in use
C13_Witness ==
    /\ last.op = "pcache_free"
    /\ last.arg # NULL
    /\ ~crashed
    /\ \E c \in chunks : c.base = last.arg

(***************************************************************************)
(* Claims about the life of the space, checked under SpecLife.              *)
(***************************************************************************)
\* C14 as claimed: whatever the order of the pcache_meminit and
\* pcache_memdeinit calls, at most one space exists, the space that exists is
\* the one pcache_msp names (no space is left behind by a later
\* pcache_meminit), and pcache_memdeinit is never run on a space that is
\* already destroyed.
C14_OneSpaceDestroyedOnce ==
    /\ Cardinality(spaces) <= 1
    /\ spaces \subseteq {pcache_msp}
    /\ ~(last.op = "pcache_memdeinit" /\ last.stage = "dangling")

(***************************************************************************)
(* Claims about sizes at their full width, checked under SpecWide.          *)
(***************************************************************************)
\* C12 as claimed: for a block allocated with request s, pcache_memsize
\* returns s + padding as a number: the value is not negative, taking padding
\* off it gives back s (so s + padding did not wrap), and its bytes are the
\* header's bytes (so the conversion to int lost nothing).
C12_MemsizeVerbatim ==
    last.op = "pcache_memsize"
      => /\ last.ret >= padding
         /\ size_t_bytes(last.ret - padding) = last.arg
         /\ size_t_bytes(last.ret) = last.hdr

(***************************************************************************)
(* Claims about the handle.                                                 *)
(***************************************************************************)
\* the places in a trace of the entries called e
At(tr, e) == {i \in 1..Len(tr) : tr[i].ev = e}

\* the places in a trace where a statement with this verb was run
Ran(tr, verb) == {i \in At(tr, "exec") : tr[i].a.verb = verb}

\* C15 (SpecHandle): close() on an opened handle finalizes every prepared
\* statement of the handle, then calls rollbackTransaction when a transaction
\* is open or m_nestedLevel is not 0 (ROLLBACK being run when a transaction is
\* open), then purges the notifications, then calls sqlite3_close_v2, in
\* this order; afterwards the handle is not opened, m_nestedLevel is 0, no
\* statement is prepared and the connection is closed.  close() on a handle
\* that is not opened does nothing.
C15_CloseInOrder ==
    [][hlast'.op = "close"
          => IF m_handle = NULL
             THEN /\ trace' = <<>>
                  /\ UNCHANGED <<m_handle, m_nestedLevel, m_lazyNestedTransaction,
                                 m_handleStatements, m_ignorableCodes, m_error, db>>
             ELSE LET tr == trace'
                      tail == Ran(tr, "ROLLBACK") \cup At(tr, "purge")
                                \cup At(tr, "close_v2")
                  IN /\ {tr[i].a : i \in At(tr, "finalize")} = db.prepared
                     /\ (At(tr, "fatal") # {})
                           = (m_nestedLevel # 0 \/ ~db.autocommit)
                     /\ (Ran(tr, "ROLLBACK") # {}) = ~db.autocommit
                     /\ Cardinality(At(tr, "purge")) = 1
                     /\ Cardinality(At(tr, "close_v2")) = 1
                     /\ \A i \in At(tr, "finalize") : \A j \in tail : i < j
                     /\ \A i \in Ran(tr, "ROLLBACK") : \A j \in At(tr, "purge") : i < j
                     /\ \A i \in At(tr, "purge") : \A j \in At(tr, "close_v2") : i < j
                     /\ m_handle' = NULL
                     /\ m_nestedLevel' = 0
                     /\ db'.prepared = {}
                     /\ m_handle \notin db'.open]_vars

\* C15 witness: a close that finalized two statements and whose ROLLBACK of
\* the open transaction failed
C15_Witness ==
    /\ hlast.op = "close"
    /\ Cardinality(At(trace, "finalize")) = 2
    /\ \E i \in Ran(trace, "ROLLBACK") : trace[i].b # "OK"

\* C16 as claimed (SpecHandle): open() returns true exactly when the handle is
\* opened afterwards, a failing open notifies its error, and the engine holds
\* no connection but the one in m_handle: never two, and none that was
\* opened and is not closed.
C16_OpenKeepsOneConnection ==
    /\ hlast.op = "open" => hlast.ret = (m_handle # NULL)
    /\ (hlast.op = "open" /\ ~hlast.ret) => At(trace, "notify") # {}
    /\ db.open \subseteq {m_handle}

\* C17 as claimed (SpecTxn): m_nestedLevel is not negative, the savepoints
\* open on the connection are WCDBSavepoint_1 .. WCDBSavepoint_n with
\* n = m_nestedLevel, and m_nestedLevel is 0 when the connection is in no
\* transaction.
C17_LevelIsSavepoints ==
    m_handle # NULL
      => /\ m_nestedLevel >= 0
         /\ db.savepoints = [i \in 1..m_nestedLevel |-> getSavepointName(i)]
         /\ db.autocommit => m_nestedLevel = 0

\* C18 as claimed (SpecNested): every begin and every commit of a well-nested
\* caller returns true; a begin and a commit that ends an inner transaction
\* run no COMMIT and leave the connection in its transaction; the commit that
\* ends the outermost transaction runs COMMIT once and leaves none open.
C18_OuterCommittedOnce ==
    [][hlast'.op \in {"beginNestedTransaction", "commitOrRollbackNestedTransaction"}
          => /\ hlast'.ret = TRUE
             /\ IF hlast'.op = "commitOrRollbackNestedTransaction" /\ depth = 1
                THEN /\ Cardinality(Ran(trace', "COMMIT")) = 1
                     /\ db'.autocommit
                ELSE /\ Ran(trace', "COMMIT") = {}
                     /\ ~db'.autocommit]_vars

\* C19 (SpecTxn): commitOrRollbackTransaction() runs COMMIT first and returns
\* true exactly when it succeeded; it runs ROLLBACK exactly when COMMIT failed
\* and left the connection in a transaction; m_nestedLevel is 0 when it
\* returns.  rollbackTransaction() runs ROLLBACK exactly when the connection
\* is in a transaction, and leaves m_nestedLevel 0.
C19_CommitOrRollback ==
    [][/\ hlast'.op = "commitOrRollbackTransaction"
          => LET tr == trace'
             IN /\ tr[1].ev = "exec" /\ tr[1].a.verb = "COMMIT"
                /\ Ran(tr, "COMMIT") = {1}
                /\ hlast'.ret = (tr[1].b = "OK")
                /\ (Ran(tr, "ROLLBACK") # {}) = (tr[1].b # "OK" /\ tr[1].t)
                /\ m_nestedLevel' = 0
       /\ hlast'.op = "rollbackTransaction"
          => /\ (Ran(trace', "ROLLBACK") # {}) = ~db.autocommit
             /\ m_nestedLevel' = 0]_vars

\* C19 witness: a COMMIT that failed and left the transaction open, so that
\* ROLLBACK was run
C19_Witness ==
    /\ hlast.op = "commitOrRollbackTransaction"
    /\ ~hlast.ret
    /\ Ran(trace, "ROLLBACK") # {}
    /\ m_nestedLevel = 0

\* the result code of the statement a probe prepared or ran
ProbeCode(tr) ==
    LET i == CHOOSE j \in At(tr, "exec") \cup At(tr, "prepare") : TRUE
    IN tr[i].b

\* the levels a probe's trace notified
ProbeLevels(tr) == {tr[i].b : i \in At(tr, "notify")}

\* C20 as claimed (SpecMeta): tableExists and ft3TokenizerExists leave
\* m_ignorableCodes as it was; success gives (true, true) and notifies
\* nothing; the code Error gives (true, false), notified at level Ignore; any
\* other code gives (false, false), notified at level Error.
C20_ProbeLevels ==
    [][hlast'.op \in {"tableExists", "ft3TokenizerExists"}
          => /\ m_ignorableCodes' = m_ignorableCodes
             /\ CASE ProbeCode(trace') = "OK" ->
                       hlast'.ret = <<TRUE, TRUE>> /\ ProbeLevels(trace') = {}
                  [] ProbeCode(trace') = "ERROR" ->
                       hlast'.ret = <<TRUE, FALSE>> /\ ProbeLevels(trace') = {"Ignore"}
                  [] OTHER ->
                       hlast'.ret = <<FALSE, FALSE>> /\ ProbeLevels(trace') = {"Error"}]_vars

\* C20 amended: as claimed, but a code other than Error is notified at level
\* Ignore when a caller had it on m_ignorableCodes on entry, at level Error
\* otherwise.
C20_ProbeLevelsOnEntry ==
    [][hlast'.op \in {"tableExists", "ft3TokenizerExists"}
          => /\ m_ignorableCodes' = m_ignorableCodes
             /\ CASE ProbeCode(trace') = "OK" ->
                       hlast'.ret = <<TRUE, TRUE>> /\ ProbeLevels(trace') = {}
                  [] ProbeCode(trace') = "ERROR" ->
                       hlast'.ret = <<TRUE, FALSE>> /\ ProbeLevels(trace') = {"Ignore"}
                  [] OTHER ->
                       /\ hlast'.ret = <<FALSE, FALSE>>
                       /\ ProbeLevels(trace')
                            = {IF \E i \in 1..Len(m_ignorableCodes) :
                                     m_ignorableCodes[i] = ProbeCode(trace')
                               THEN "Ignore" ELSE "Error"}]_vars

\* C20 witness: tableExists met the code a caller had marked ignorable before
\* the call
C20_Witness ==
    /\ hlast.op = "tableExists"
    /\ hlast.ret = <<FALSE, FALSE>>
    /\ m_error.level = "Ignore"
    /\ m_ignorableCodes # <<>>
    /\ m_handleStatements # <<>>

(***************************************************************************)
(* Claims about concurrent callers, checked under SpecThreads.              *)
(***************************************************************************)
\* no two blocks held by callers share a byte, headers included
C3_NoOverlap ==
    \A a, b \in live :
      a # b => ~Overlap(a.p - padding, a.s + padding, b.p - padding, b.s + padding)

\* C3 as claimed: with threads interleaving the four calls on the one space,
\* no two held blocks overlap, pcache_memsize of a held block is the size it
\* was allocated with (plus the header), and at most one thread at a time is
\* between PREACTION and POSTACTION of the space.
C3_ThreadSafe ==
    /\ C3_NoOverlap
    /\ \A b \in live : memsize_value(mem, b.p) = b.s + padding
    /\ Cardinality({t \in Threads : tstate[t].pc \in {"find", "take", "unlink"}}) <= 1

====
